---- MODULE Spec2Model ----
(***************************************************************************)
(* A model of rc/models/layers.py: the stacked recurrent encoder, the      *)
(* attention layers and the functional helpers.                            *)
(*                                                                         *)
(* State: `mod` is the module object a caller holds (its class and the     *)
(* attributes __init__ set, plus nn.Module's training flag), `call` is the *)
(* outcome of the last call made on it (arguments, path taken, value       *)
(* returned or exception raised).                                          *)
(*                                                                         *)
(* Tensors of the encoder are symbolic: a tensor is its shape and one term *)
(* per batch row, the term recording the operations that produced the row  *)
(* (recurrent layer, dropout with the identity of the random samples,      *)
(* concatenation).  The recurrent backend is an uninterpreted per-sequence *)
(* function.  Tensors of the attention layers are numeric: exact rationals *)
(* extended with -inf and NaN.                                             *)
(***************************************************************************)
EXTENDS Integers, Sequences, FiniteSets, TLC

VARIABLES mod, call

vars == <<mod, call>>

(***************************************************************************)
(* Bounds of the model.                                                    *)
(***************************************************************************)
\* encoder inputs: batch * time <= MaxCells
MaxCells == 4
\* encoder: num_layers in 1..MaxLayers
MaxLayers == 2
\* encoder: feature sizes (input_size, hidden_size)
InputSize == 2
HiddenSize == 2

\* dropout_rate values, in percent
DropoutRates == {0, 50}

NoModule == [cls |-> "None"]
NoCall == [op |-> "none"]
None == [k |-> "None"]

(***************************************************************************)
(* Generic helpers.                                                        *)
(***************************************************************************)
Range(s) == {s[i] : i \in DOMAIN s}

\* the orderings of the set S, as sequences
RECURSIVE Orderings(_)
Orderings(S) ==
    IF S = {} THEN {<<>>}
    ELSE UNION {{<<v>> \o p : p \in Orderings(S \ {v})} : v \in S}

\* the permutations of 1..n, for every batch size of the model
Perms == [n \in 1..MaxCells |-> Orderings(1..n)]

SeqMax(s) == CHOOSE m \in Range(s) : \A v \in Range(s) : v <= m

RECURSIVE SeqSum(_)
SeqSum(s) == IF s = <<>> THEN 0 ELSE Head(s) + SeqSum(Tail(s))

(***************************************************************************)
(* Symbolic tensors: [shape, rows].  rows[b] is the term of batch row b.   *)
(***************************************************************************)
Tensor(shape, rows) == [shape |-> shape, rows |-> rows]

\* the input x of shape (batch, time, input_dim): free symbols, one per row
InputX(B, T) == Tensor(<<B, T, InputSize>>, [b \in 1..B |-> [k |-> "x", b |-> b]])

\* Tensor.index_select(0, idx)
IndexSelect0(x, idx) ==
    Tensor([x.shape EXCEPT ![1] = Len(idx)], [j \in 1..Len(idx) |-> x.rows[idx[j]]])

\* torch.cat(tensors, 2): concatenation along the feature axis
Cat2(ts) ==
    IF Len(ts) = 1 THEN ts[1]
    ELSE Tensor([ts[1].shape EXCEPT ![3] = SeqSum([i \in 1..Len(ts) |-> ts[i].shape[3]])],
                [b \in 1..ts[1].shape[1] |->
                    [k |-> "cat", parts |-> [i \in 1..Len(ts) |-> ts[i].rows[b]]]])

(***************************************************************************)
(* dropout (layers.py 319-328).  shared_axes holds 0-based axes.  The      *)
(* mask holds one independent Bernoulli sample per element of a tensor of  *)
(* size sz; expand_as broadcasts it along the axes where sz is 1.  The     *)
(* result is [out, draws]: draws lists the masks drawn (none or one).      *)
(***************************************************************************)
MaskSize(shape, shared_axes) ==
    [i \in 1..Len(shape) |-> IF (i - 1) \in shared_axes THEN 1 ELSE shape[i]]

\* dropout applied to x and the mask drawn for it
Dropped(x, shared_axes, site) ==
    LET sz == MaskSize(x.shape, shared_axes)
        mask == [site |-> site, shape |-> x.shape, sz |-> sz]
    IN  IF \E a \in shared_axes : a >= Len(x.shape)
        THEN \* sz[i] = 1 on a list without index i
             [out |-> None, draws |-> <<>>, exc |-> "IndexError"]
        ELSE [out |-> Tensor(x.shape,
                        [b \in 1..x.shape[1] |->
                            [k |-> "mul", in |-> x.rows[b], site |-> site,
                             mb |-> IF sz[1] = 1 THEN 1 ELSE b]]),
              draws |-> <<mask>>, exc |-> ""]

dropout_and_guard(x, drop_prob, shared_axes, training, site) ==
    IF drop_prob = 0 /\ (~training)
    THEN [out |-> x, draws |-> <<>>, exc |-> ""]
    ELSE Dropped(x, shared_axes, site)

\* site numbers the call, so that the samples of two calls differ
dropout(x, drop_prob, shared_axes, training, site) ==
    IF drop_prob = 0 \/ (~training)
    THEN [out |-> x, draws |-> <<>>, exc |-> ""]
    ELSE Dropped(x, shared_axes, site)

\* the sample of mask m that multiplies the element at position pos
\* (mask.expand_as(x): a size-1 axis of the mask is read at its only index)
MaskSample(m, pos) == [i \in 1..Len(m.sz) |-> IF m.sz[i] = 1 THEN 1 ELSE pos[i]]

\* the element positions of a tensor of the given shape
Positions(shape) ==
    {p \in [1..Len(shape) -> 1..SeqMax(shape)] : \A i \in 1..Len(shape) : p[i] <= shape[i]}

(***************************************************************************)
(* StackedBRNN (layers.py 13-115).                                         *)
(***************************************************************************)
\* __init__: the attributes set at construction; nn.Module starts in
\* training mode.  bidirectional and rnn_type keep their defaults (True,
\* nn.LSTM).
StackedBRNN(dropout_rate, dropout_output, variational_dropout, num_layers, concat_layers, padding, return_single_timestep) ==
    [cls |-> "StackedBRNN",
     padding |-> padding,
     dropout_output |-> dropout_output,
     dropout_rate |-> dropout_rate,
     variational_dropout |-> variational_dropout,
     num_layers |-> num_layers,
     concat_layers |-> concat_layers,
     return_single_timestep |-> return_single_timestep,
     hidden_size |-> HiddenSize,
     num_directions |-> 2,
     training |-> TRUE]

\* shared_axes=[1] if self.variational_dropout else []
SharedAxes(self) == IF self.variational_dropout THEN {1} ELSE {}

\* self.rnns[i] on a padded batch or on a packed one: per row, an
\* uninterpreted function of the layer, the input row and the number of
\* steps it runs over.  T is the time size of the output (zeros beyond len).
RnnRow(self, i, row, len, T) == [k |-> "rnn", layer |-> i, in |-> row, len |-> len, T |-> T]

\* hn[-1]: the final hidden state of the last direction, per row
RnnFinal(self, i, row, len) == [k |-> "hn", layer |-> i, in |-> row, len |-> len]

RnnWidth(self) == self.num_directions * self.hidden_size

\* _forward_unpadded, the loop over layers: [outputs, draws]
RECURSIVE UnpaddedLayers(_, _, _, _)
UnpaddedLayers(self, outputs, draws, i) ==
    IF i > self.num_layers THEN [outputs |-> outputs, draws |-> draws]
    ELSE LET last == outputs[Len(outputs)]
             d == dropout(last, self.dropout_rate, SharedAxes(self), self.training,
                          Len(draws) + 1)
             rnn_input == d.out
             T == rnn_input.shape[2]
             rnn_output == Tensor(<<rnn_input.shape[1], T, RnnWidth(self)>>,
                                  [b \in 1..rnn_input.shape[1] |->
                                      RnnRow(self, i, rnn_input.rows[b], T, T)])
         IN  UnpaddedLayers(self, Append(outputs, rnn_output), draws \o d.draws, i + 1)

StackedBRNN_forward_unpadded(self, x, x_mask) ==
    LET enc == UnpaddedLayers(self, <<x>>, <<>>, 1)
        output == IF self.concat_layers
                  THEN Cat2(Tail(enc.outputs))
                  ELSE enc.outputs[Len(enc.outputs)]
        d == IF self.dropout_output
             THEN dropout(output, self.dropout_rate, SharedAxes(self), self.training,
                          Len(enc.draws) + 1)
             ELSE [out |-> output, draws |-> <<>>, exc |-> ""]
    IN  [kind |-> "return", exc |-> "", out |-> d.out, draws |-> enc.draws \o d.draws,
         idx_sort |-> <<>>, idx_unsort |-> <<>>, packed |-> <<>>]

\* lengths = x_mask.eq(0).long().sum(1)
Lengths(x_mask) ==
    [b \in 1..Len(x_mask) |-> Cardinality({t \in 1..Len(x_mask[b]) : ~x_mask[b][t]})]

\* Tensor.squeeze() of a 1-d tensor: a batch of one becomes a 0-d tensor
SqueezeDims(n) == IF n = 1 THEN 0 ELSE 1

SortAscending(lengths) ==
    {p \in Perms[Len(lengths)] :
        \A i \in 1..(Len(lengths) - 1) : lengths[p[i]] <= lengths[p[i + 1]]}

\* torch.sort(lengths, dim=0, descending=True): the sort is not stable, so
\* any index order that makes the values non-increasing may come back
SortDescending(lengths) ==
    {p \in Perms[Len(lengths)] :
        \A i \in 1..(Len(lengths) - 1) : lengths[p[i]] >= lengths[p[i + 1]]}

\* torch.sort(idx_sort, dim=0)[1]: idx_sort holds distinct values
ArgSortAscending(idx) ==
    [j \in 1..Len(idx) |->
        CHOOSE k \in 1..Len(idx) : Cardinality({m \in 1..Len(idx) : idx[m] < idx[k]}) = j - 1]

\* nn.utils.rnn.pack_padded_sequence(input, lengths, batch_first=True):
\* lengths must be positive and sorted in decreasing order
PackOk(lengths) ==
    /\ \A i \in 1..Len(lengths) : lengths[i] > 0
    /\ \A i \in 1..(Len(lengths) - 1) : lengths[i] >= lengths[i + 1]

\* _forward_padded, the loop over layers: [outputs, singles, draws]
RECURSIVE PaddedLayers(_, _, _, _, _, _)
PaddedLayers(self, outputs, singles, draws, lengths, i) ==
    IF i > self.num_layers
    THEN [outputs |-> outputs, singles |-> singles, draws |-> draws]
    ELSE LET last == outputs[Len(outputs)]
             d == IF self.dropout_rate > 0
                  THEN dropout(last, self.dropout_rate, SharedAxes(self), self.training,
                               Len(draws) + 1)
                  ELSE [out |-> last, draws |-> <<>>, exc |-> ""]
             rnn_input == d.out
             B == rnn_input.shape[1]
             \* pad_packed_sequence pads to the longest sequence of the batch
             T == SeqMax(lengths)
             rnn_output == Tensor(<<B, T, RnnWidth(self)>>,
                                  [b \in 1..B |->
                                      RnnRow(self, i, rnn_input.rows[b], lengths[b], T)])
             hn == Tensor(<<B, self.hidden_size>>,
                          [b \in 1..B |-> RnnFinal(self, i, rnn_input.rows[b], lengths[b])])
         IN  PaddedLayers(self, Append(outputs, rnn_output), Append(singles, hn),
                          draws \o d.draws, lengths, i + 1)

Raise(exc) ==
    [kind |-> "raise", exc |-> exc, out |-> None, draws |-> <<>>,
     idx_sort |-> <<>>, idx_unsort |-> <<>>, packed |-> <<>>]

\* idx_sort is the index order torch.sort returned
StackedBRNN_forward_padded_sorted(self, x, x_mask, idx_sort) ==
    LET lengths0 == Lengths(x_mask)
        idx_unsort == ArgSortAscending(idx_sort)
        lengths == [j \in 1..Len(idx_sort) |-> lengths0[idx_sort[j]]]
        rnn_input == IndexSelect0(x, idx_sort)
        enc == PaddedLayers(self, <<rnn_input>>, <<>>, <<>>, lengths, 1)
        output == IF self.return_single_timestep
                  THEN enc.singles[Len(enc.singles)]
                  ELSE IF self.concat_layers
                       THEN Cat2(Tail(enc.outputs))
                       ELSE enc.outputs[Len(enc.outputs)]
        unsorted == IndexSelect0(output, idx_unsort)
        d == IF self.dropout_output /\ self.dropout_rate > 0
             THEN dropout(unsorted, self.dropout_rate, SharedAxes(self), self.training,
                          Len(enc.draws) + 1)
             ELSE [out |-> unsorted, draws |-> <<>>, exc |-> ""]
    IN  IF SqueezeDims(Len(x_mask)) = 0
        THEN \* list(lengths[idx_sort]) of a 0-d tensor
             Raise("IndexError")
        ELSE IF ~PackOk(lengths)
        THEN \* pack_padded_sequence rejects the lengths
             [Raise("RuntimeError") EXCEPT !.idx_sort = idx_sort, !.idx_unsort = idx_unsort,
                                           !.packed = lengths]
        ELSE [kind |-> "return", exc |-> "", out |-> d.out, draws |-> enc.draws \o d.draws,
              idx_sort |-> idx_sort, idx_unsort |-> idx_unsort, packed |-> lengths]

UsesPaddedPath_no_single(self) == self.padding \/ ~self.training

\* forward: which path runs
UsesPaddedPath(self) == self.padding \/ self.return_single_timestep \/ ~self.training

(***************************************************************************)
(* Encoder: state and actions.                                             *)
(***************************************************************************)
EncoderShapes == {s \in (1..MaxCells) \X (1..MaxCells) : s[1] * s[2] <= MaxCells}

Masks(B, T) == [1..B -> [1..T -> BOOLEAN]]

InitBRNN ==
    /\ mod \in {StackedBRNN(r, o, v, n, c, p, s) :
                  r \in DropoutRates, o \in BOOLEAN, v \in BOOLEAN, n \in 1..MaxLayers,
                  c \in BOOLEAN, p \in BOOLEAN, s \in BOOLEAN}
    /\ call = NoCall

\* nn.Module.train(mode): train() and eval()
SetTraining ==
    /\ mod.cls = "StackedBRNN"
    /\ call = NoCall
    /\ \E mode \in BOOLEAN : mod' = [mod EXCEPT !.training = mode]
    /\ UNCHANGED call

\* the caller takes the outcome of the last call; the next call can start
Return ==
    /\ call # NoCall
    /\ call' = NoCall
    /\ UNCHANGED mod

\* the record of one call of an encoder method: padded says which path
\* runs, idx_sort is the order torch.sort returns on the padded path
EncoderCall(op, padded, x, x_mask, idx_sort) ==
    [op |-> op, x |-> x, x_mask |-> x_mask,
     path |-> IF padded THEN "padded" ELSE "unpadded",
     ret |-> IF padded
             THEN StackedBRNN_forward_padded_sorted(mod, x, x_mask, idx_sort)
             ELSE StackedBRNN_forward_unpadded(mod, x, x_mask)]

\* StackedBRNN.forward(x, x_mask)
Forward ==
    /\ mod.cls = "StackedBRNN"
    /\ call = NoCall
    /\ \E s \in EncoderShapes : \E x_mask \in Masks(s[1], s[2]) :
         \E idx_sort \in SortDescending(Lengths(x_mask)) :
            call' = EncoderCall("forward", UsesPaddedPath(mod), InputX(s[1], s[2]),
                                x_mask, idx_sort)
    /\ UNCHANGED mod

\* StackedBRNN._forward_padded(x, x_mask), called directly
ForwardPadded ==
    /\ mod.cls = "StackedBRNN"
    /\ call = NoCall
    /\ \E s \in EncoderShapes : \E x_mask \in Masks(s[1], s[2]) :
         \E idx_sort \in SortDescending(Lengths(x_mask)) :
            call' = EncoderCall("_forward_padded", TRUE, InputX(s[1], s[2]), x_mask, idx_sort)
    /\ UNCHANGED mod

\* StackedBRNN._forward_unpadded(x, x_mask), called directly
ForwardUnpadded ==
    /\ mod.cls = "StackedBRNN"
    /\ call = NoCall
    /\ \E s \in EncoderShapes : \E x_mask \in Masks(s[1], s[2]) :
         call' = EncoderCall("_forward_unpadded", FALSE, InputX(s[1], s[2]), x_mask, <<>>)
    /\ UNCHANGED mod

NextBRNN == SetTraining \/ Forward \/ ForwardPadded \/ ForwardUnpadded \/ Return

SpecBRNN == InitBRNN /\ [][NextBRNN]_vars

(***************************************************************************)
(* Encoder: what the claims read.                                          *)
(***************************************************************************)
IsEncoderCall == call.op \in {"forward", "_forward_padded", "_forward_unpadded"}

Returned == call.ret.kind = "return"

\* the input rows a row term was computed from
RECURSIVE Sources(_)
Sources(t) ==
    IF t.k = "x" THEN {t.b}
    ELSE IF t.k = "cat" THEN UNION {Sources(t.parts[i]) : i \in DOMAIN t.parts}
    ELSE Sources(t.in)

\* the numbers of steps the recurrent layers ran over to compute a row term
RECURSIVE Steps(_)
Steps(t) ==
    IF t.k = "x" THEN {}
    ELSE IF t.k = "cat" THEN UNION {Steps(t.parts[i]) : i \in DOMAIN t.parts}
    ELSE IF t.k \in {"rnn", "hn"} THEN {t.len} \cup Steps(t.in)
    ELSE Steps(t.in)

\* dropout does nothing in this object's calls
DropoutDisabled == mod.dropout_rate = 0 \/ ~mod.training

NoPadding == \A b \in DOMAIN call.x_mask : \A t \in DOMAIN call.x_mask[b] : ~call.x_mask[b][t]

\* C3: when not in single-timestep mode, an encoding that is returned has
\* the batch and time dimensions of x, on the padded and the unpadded path.
C3_OutputShape ==
    (IsEncoderCall /\ ~mod.return_single_timestep /\ Returned)
        => /\ call.ret.out.shape[1] = call.x.shape[1]
           /\ call.ret.out.shape[2] = call.x.shape[2]

\* C4: on the padded path the lengths handed to packing are the true
\* lengths in sorted order and are non-increasing, the unsort index is the
\* inverse of the sort permutation, and row i of a returned output is
\* computed from input row i alone, over the true length of row i.
C4_SortUnsort ==
    (IsEncoderCall /\ call.path = "padded" /\ call.ret.packed # <<>>)
        => LET r == call.ret
               n == Len(call.x_mask)
               lengths == Lengths(call.x_mask)
           IN  /\ Len(r.packed) = n
               /\ \A j \in 1..n : r.packed[j] = lengths[r.idx_sort[j]]
               /\ \A j \in 1..(n - 1) : r.packed[j] >= r.packed[j + 1]
               /\ \A i \in 1..n : /\ r.idx_sort[r.idx_unsort[i]] = i
                                  /\ r.idx_unsort[r.idx_sort[i]] = i
               /\ Returned =>
                    /\ r.out.shape[1] = n
                    /\ \A i \in 1..n : /\ Sources(r.out.rows[i]) = {i}
                                       /\ Steps(r.out.rows[i]) = {lengths[i]}

\* a returned padded call whose batch had to be reordered
C4_Witness ==
    /\ IsEncoderCall /\ call.path = "padded" /\ Returned
    /\ call.ret.idx_sort = <<2, 1>>
    /\ Lengths(call.x_mask) = <<1, 2>>
    /\ mod.return_single_timestep

\* C7: forward runs the padded path exactly when padding is set, or
\* single-timestep output is requested, or the module is not training; and
\* in single-timestep mode what it returns is the last layer's final hidden
\* state per sequence, of shape (batch, hidden).
C7_PathChoice ==
    call.op = "forward"
        => /\ call.path = "padded"
                <=> (mod.padding \/ mod.return_single_timestep \/ ~mod.training)
           /\ call.path = "unpadded"
                <=> (~mod.padding /\ ~mod.return_single_timestep /\ mod.training)
           /\ (mod.return_single_timestep /\ Returned)
                => /\ call.ret.out.shape = <<Len(call.x_mask), mod.hidden_size>>
                   /\ \A i \in DOMAIN call.ret.out.rows :
                        LET t == call.ret.out.rows[i]
                            h == IF t.k = "mul" THEN t.in ELSE t
                        IN  h.k = "hn" /\ h.layer = mod.num_layers

\* forward in training mode, single-timestep output, padding option off
C7_Witness ==
    /\ call.op = "forward" /\ Returned
    /\ mod.return_single_timestep /\ ~mod.padding /\ mod.training
    /\ call.path = "padded"

\* C8: on a batch with no padding and with dropout disabled, the padded
\* path returns what the unpadded path returns.
C8_PathsAgree ==
    (IsEncoderCall /\ call.path = "padded" /\ NoPadding /\ DropoutDisabled
        /\ ~mod.return_single_timestep)
        => LET u == StackedBRNN_forward_unpadded(mod, call.x, call.x_mask)
           IN  call.ret.kind = u.kind /\ call.ret.out = u.out

\* C10: with variational dropout every mask applied is shared along time
\* and independent across features: within a batch element, two positions
\* get the same sample exactly when they are positions of the same feature.
C10_MaskSharedAlongTime ==
    (IsEncoderCall /\ mod.variational_dropout)
        => \A d \in DOMAIN call.ret.draws :
             LET m == call.ret.draws[d]
                 f == Len(m.shape)
             IN  \A p, q \in Positions(m.shape) :
                    p[1] = q[1] => (MaskSample(m, p) = MaskSample(m, q) <=> p[f] = q[f])

(***************************************************************************)
(* Numbers of the attention layers: exact rationals n/d (d > 0, lowest     *)
(* terms) extended with -inf, +inf and NaN, with IEEE's rules for them.    *)
(* exp is modelled as ExpBase^x on integer x, so that softmax stays        *)
(* rational; rounding is not modelled.  A "log" value stands for the       *)
(* logarithm of the rational it holds.                                     *)
(***************************************************************************)
\* stands in for e
ExpBase == 2

RECURSIVE GCD(_, _)
GCD(a, b) == IF b = 0 THEN a ELSE GCD(b, a % b)

Abs(n) == IF n < 0 THEN -n ELSE n

Fin(n, d) ==
    LET g == GCD(Abs(n), Abs(d))
        sgn == IF d < 0 THEN -1 ELSE 1
    IN  [k |-> "fin", n |-> sgn * (n \div g), d |-> sgn * (d \div g)]

Num(n) == [k |-> "fin", n |-> n, d |-> 1]
NegInf == [k |-> "ninf", n |-> 0, d |-> 1]
PosInf == [k |-> "pinf", n |-> 0, d |-> 1]
NaN == [k |-> "nan", n |-> 0, d |-> 1]
LogOf(r) == [k |-> "log", n |-> r.n, d |-> r.d]

Sign(a) == IF a.k = "pinf" THEN 1 ELSE IF a.k = "ninf" THEN -1
           ELSE IF a.n > 0 THEN 1 ELSE IF a.n < 0 THEN -1 ELSE 0

Signed(sg) == IF sg > 0 THEN PosInf ELSE IF sg < 0 THEN NegInf ELSE NaN

Add(a, b) ==
    IF a.k = "nan" \/ b.k = "nan" THEN NaN
    ELSE IF a.k = "fin" /\ b.k = "fin" THEN Fin(a.n * b.d + b.n * a.d, a.d * b.d)
    ELSE IF a.k = "fin" THEN b
    ELSE IF b.k = "fin" THEN a
    ELSE IF a.k = b.k THEN a ELSE NaN

Neg(a) ==
    IF a.k = "fin" THEN Fin(-a.n, a.d)
    ELSE IF a.k = "ninf" THEN PosInf ELSE IF a.k = "pinf" THEN NegInf ELSE NaN

Sub(a, b) == Add(a, Neg(b))

Mul(a, b) ==
    IF a.k = "nan" \/ b.k = "nan" THEN NaN
    ELSE IF a.k = "fin" /\ b.k = "fin" THEN Fin(a.n * b.n, a.d * b.d)
    ELSE Signed(Sign(a) * Sign(b))

Div(a, b) ==
    IF a.k = "nan" \/ b.k = "nan" THEN NaN
    ELSE IF a.k = "fin" /\ b.k = "fin"
         THEN IF b.n = 0 THEN Signed(Sign(a)) ELSE Fin(a.n * b.d, a.d * b.n)
    ELSE IF a.k = "fin" THEN Num(0)
    ELSE IF b.k = "fin" THEN Signed(Sign(a) * (IF Sign(b) < 0 THEN -1 ELSE 1))
    ELSE NaN

\* a <= b, for values that are not NaN
Leq(a, b) ==
    IF a.k = "ninf" \/ b.k = "pinf" THEN TRUE
    ELSE IF a.k = "pinf" \/ b.k = "ninf" THEN FALSE
    ELSE a.n * b.d <= b.n * a.d

RECURSIVE Pow(_, _)
Pow(b, e) == IF e = 0 THEN 1 ELSE b * Pow(b, e - 1)

\* exp of an integer, an infinity, NaN, or of a "log" value
Exp(a) ==
    IF a.k = "nan" THEN NaN
    ELSE IF a.k = "ninf" THEN Num(0)
    ELSE IF a.k = "pinf" THEN PosInf
    ELSE IF a.k = "log" THEN Fin(a.n, a.d)
    ELSE IF a.n >= 0 THEN Num(Pow(ExpBase, a.n)) ELSE Fin(1, Pow(ExpBase, -a.n))

\* log of a rational
Log(a) ==
    IF a.k = "nan" THEN NaN
    ELSE IF a.k = "pinf" THEN PosInf
    ELSE IF a.n = 0 THEN NegInf
    ELSE IF a.n < 0 THEN NaN
    ELSE LogOf(a)

RECURSIVE SumOf(_)
SumOf(s) == IF s = <<>> THEN Num(0) ELSE Add(Head(s), SumOf(Tail(s)))

\* the maximum of a row (NaN when the row holds a NaN)
RowMax(row) ==
    IF \E i \in DOMAIN row : row[i].k = "nan" THEN NaN
    ELSE row[CHOOSE i \in DOMAIN row : \A j \in DOMAIN row : Leq(row[j], row[i])]

\* F.softmax(row, dim=-1): exp(x - max) / sum(exp(x - max))
Softmax(row) ==
    LET m == RowMax(row)
        e == [i \in DOMAIN row |-> Exp(Sub(row[i], m))]
        z == SumOf(e)
    IN  [i \in DOMAIN row |-> Div(e[i], z)]

\* F.log_softmax(row, dim=-1): (x - max) - log(sum(exp(x - max)))
LogSoftmax(row) ==
    LET m == RowMax(row)
        sh == [i \in DOMAIN row |-> Sub(row[i], m)]
        z == SumOf([i \in DOMAIN row |-> Exp(sh[i])])
    IN  [i \in DOMAIN row |->
            IF sh[i].k = "nan" \/ z.k = "nan" THEN NaN
            ELSE IF sh[i].k = "ninf" THEN NegInf
            ELSE \* (x - max) - log z, kept as the log of a rational
                 Log(Div(Exp(sh[i]), z))]

MaskedFill_unmasked(row, mask, value) == row

\* Tensor.masked_fill_(mask, value) on one row
MaskedFill(row, mask, value) == [i \in DOMAIN row |-> IF mask[i] THEN value ELSE row[i]]

\* F.relu
Relu(a) == IF a.k = "fin" /\ a.n < 0 THEN Num(0) ELSE a

\* nn.Linear with a scalar weight and bias, on one feature
Linear(lin, v) == Add(Mul(Num(lin.w), v), Num(lin.b))

(***************************************************************************)
(* LinearSeqAttn, BilinearSeqAttn, SeqAttnMatch (layers.py 226-312).       *)
(* Numeric tensors are nested sequences; features are scalars (h = 1), so  *)
(* an nn.Linear is one weight and one bias.                                *)
(***************************************************************************)
\* attention inputs: the score matrix has at most AttnCells entries
AttnCells == 2
\* attention inputs: the entries of x and y are in 0..MaxVal
MaxVal == 1

Weights == {-1, 1}
Biases == {0, 1}
Linears == [w : Weights, b : Biases]
NoLinear == [w |-> 0, b |-> 0]

Values == {Num(v) : v \in 0..MaxVal}

LinearSeqAttn(lin) == [cls |-> "LinearSeqAttn", linear |-> lin, has_linear |-> TRUE]

\* identity=True leaves self.linear None
BilinearSeqAttn(identity, lin) ==
    [cls |-> "BilinearSeqAttn", linear |-> IF identity THEN NoLinear ELSE lin,
     has_linear |-> ~identity]

SeqAttnMatch(identity, lin) ==
    [cls |-> "SeqAttnMatch", linear |-> IF identity THEN NoLinear ELSE lin,
     has_linear |-> ~identity]

\* x: batch * len, x_mask: batch * len; returns alpha: batch * len
LinearSeqAttn_forward(self, x, x_mask) ==
    LET scores == [b \in DOMAIN x |-> [i \in DOMAIN x[b] |-> Linear(self.linear, x[b][i])]]
        masked == [b \in DOMAIN x |-> MaskedFill(scores[b], x_mask[b], NegInf)]
        alpha == [b \in DOMAIN x |-> Softmax(masked[b])]
    IN  [kind |-> "return", out |-> alpha]

\* x: batch * len, y: batch, x_mask: batch * len; returns log-probabilities
BilinearSeqAttn_forward(self, x, y, x_mask) ==
    LET Wy == [b \in DOMAIN y |-> IF self.has_linear THEN Linear(self.linear, y[b]) ELSE y[b]]
        xWy == [b \in DOMAIN x |-> [i \in DOMAIN x[b] |-> Mul(x[b][i], Wy[b])]]
        masked == [b \in DOMAIN x |-> MaskedFill(xWy[b], x_mask[b], NegInf)]
        alpha == [b \in DOMAIN x |-> LogSoftmax(masked[b])]
    IN  [kind |-> "return", out |-> alpha]

\* x: batch * len1, y: batch * len2, y_mask: batch * len2; returns
\* matched_seq: batch * len1 (alpha is kept beside it in the outcome)
SeqAttnMatch_forward(self, x, y, y_mask) ==
    LET x_proj == [b \in DOMAIN x |-> [i \in DOMAIN x[b] |->
                      IF self.has_linear THEN Relu(Linear(self.linear, x[b][i])) ELSE x[b][i]]]
        y_proj == [b \in DOMAIN y |-> [j \in DOMAIN y[b] |->
                      IF self.has_linear THEN Relu(Linear(self.linear, y[b][j])) ELSE y[b][j]]]
        scores == [b \in DOMAIN x |-> [i \in DOMAIN x[b] |-> [j \in DOMAIN y[b] |->
                      Mul(x_proj[b][i], y_proj[b][j])]]]
        masked == [b \in DOMAIN x |-> [i \in DOMAIN x[b] |->
                      MaskedFill(scores[b][i], y_mask[b], NegInf)]]
        alpha == [b \in DOMAIN x |-> [i \in DOMAIN x[b] |-> Softmax(masked[b][i])]]
        matched_seq == [b \in DOMAIN x |-> [i \in DOMAIN x[b] |->
                          SumOf([j \in DOMAIN y[b] |-> Mul(alpha[b][i][j], y[b][j])])]]
    IN  [kind |-> "return", out |-> matched_seq, alpha |-> alpha]

(***************************************************************************)
(* Attention: state and actions.                                           *)
(***************************************************************************)
Matrices(B, L) == [1..B -> [1..L -> Values]]

AttnShapes == {s \in (1..AttnCells) \X (1..AttnCells) : s[1] * s[2] <= AttnCells}

MatchShapes ==
    {s \in (1..AttnCells) \X (1..AttnCells) \X (1..AttnCells) : s[1] * s[2] * s[3] <= AttnCells}

InitAttn ==
    /\ mod \in {LinearSeqAttn(l) : l \in Linears}
               \cup {BilinearSeqAttn(id, l) : id \in BOOLEAN, l \in Linears}
               \cup {SeqAttnMatch(id, l) : id \in BOOLEAN, l \in Linears}
    /\ call = NoCall

LinearForward ==
    /\ mod.cls = "LinearSeqAttn"
    /\ call = NoCall
    /\ \E s \in AttnShapes : \E x \in Matrices(s[1], s[2]), x_mask \in Masks(s[1], s[2]) :
         call' = [op |-> "LinearSeqAttn.forward", x |-> x, mask |-> x_mask,
                  ret |-> LinearSeqAttn_forward(mod, x, x_mask)]
    /\ UNCHANGED mod

BilinearForward ==
    /\ mod.cls = "BilinearSeqAttn"
    /\ call = NoCall
    /\ \E s \in AttnShapes :
         \E x \in Matrices(s[1], s[2]), y \in [1..s[1] -> Values], x_mask \in Masks(s[1], s[2]) :
           call' = [op |-> "BilinearSeqAttn.forward", x |-> x, y |-> y, mask |-> x_mask,
                    ret |-> BilinearSeqAttn_forward(mod, x, y, x_mask)]
    /\ UNCHANGED mod

MatchForward ==
    /\ mod.cls = "SeqAttnMatch"
    /\ call = NoCall
    /\ \E s \in MatchShapes :
         \E x \in Matrices(s[1], s[2]), y \in Matrices(s[1], s[3]), y_mask \in Masks(s[1], s[3]) :
           call' = [op |-> "SeqAttnMatch.forward", x |-> x, y |-> y, mask |-> y_mask,
                    ret |-> SeqAttnMatch_forward(mod, x, y, y_mask)]
    /\ UNCHANGED mod

NextAttn == LinearForward \/ BilinearForward \/ MatchForward \/ Return

SpecAttn == InitAttn /\ [][NextAttn]_vars

(***************************************************************************)
(* Attention: what the claims read.                                        *)
(***************************************************************************)
IsAttnCall ==
    call.op \in {"LinearSeqAttn.forward", "BilinearSeqAttn.forward", "SeqAttnMatch.forward"}

\* the attention distributions of the last call, each with the mask row it
\* was computed under: a set of <<distribution, mask row>>
Distributions ==
    IF call.op = "LinearSeqAttn.forward"
    THEN {<<call.ret.out[b], call.mask[b]>> : b \in DOMAIN call.mask}
    ELSE IF call.op = "BilinearSeqAttn.forward"
    THEN {<<[i \in DOMAIN call.ret.out[b] |-> Exp(call.ret.out[b][i])], call.mask[b]>> :
            b \in DOMAIN call.mask}
    ELSE UNION {{<<call.ret.alpha[b][i], call.mask[b]>> : i \in DOMAIN call.ret.alpha[b]} :
                  b \in DOMAIN call.mask}

\* exactly 0 on every masked position and total 1 on the unmasked ones
ProperOn(dist, mask) ==
    /\ \A i \in DOMAIN dist : mask[i] => dist[i] = Num(0)
    /\ SumOf([i \in DOMAIN dist |-> IF mask[i] THEN Num(0) ELSE dist[i]]) = Num(1)

AllMasked(mask) == \A i \in DOMAIN mask : mask[i]

\* C1 as claimed: for every mask, whole rows of padding included, every
\* attention distribution is 0 on the masked positions and sums to 1 on the
\* unmasked ones.
C1_MaskedSoftmaxAllMasks ==
    IsAttnCall => \A dm \in Distributions : ProperOn(dm[1], dm[2])

\* C1 amended: the same for every mask row with at least one unmasked
\* position; a mask row that is all padding gives NaN at every position.
C1_MaskedSoftmax ==
    IsAttnCall => \A dm \in Distributions :
        IF AllMasked(dm[2])
        THEN \A i \in DOMAIN dm[1] : dm[1][i] = NaN
        ELSE ProperOn(dm[1], dm[2])

\* the matching layer on a question that is partly padding
C1_Witness ==
    /\ call.op = "SeqAttnMatch.forward"
    /\ \E dm \in Distributions :
         /\ \E i \in DOMAIN dm[2] : dm[2][i]
         /\ \E i \in DOMAIN dm[2] : ~dm[2][i] /\ dm[1][i] = Num(1)

(***************************************************************************)
(* SentenceHistoryAttn (layers.py 154-223).                                *)
(***************************************************************************)
\* history inputs: at most MaxTurns turns
MaxTurns == 3

\* values of the learned recency weight, in score units
RecencyWeights == {-1, 0, 1}

\* the default of __init__'s use_current_timestep
DefaultUseCurrentTimestep == TRUE

\* __init__(input_size, recency_bias, cuda, use_current_timestep): the
\* outcome [ret, obj]; obj is the object built, NoModule when __init__ raises
SentenceHistoryAttn_init_no_raise(recency_bias, cuda, use_current_timestep, lin, weight) ==
    [ret |-> [kind |-> "return", exc |-> ""],
     obj |-> [cls |-> "SentenceHistoryAttn", linear |-> lin,
              recency_bias |-> recency_bias, cuda |-> cuda,
              use_current_timestep |-> use_current_timestep,
              recency_weight |-> IF recency_bias THEN weight ELSE 0]]

SentenceHistoryAttn_init(recency_bias, cuda, use_current_timestep, lin, weight) ==
    IF use_current_timestep
    THEN [ret |-> [kind |-> "raise", exc |-> "NotImplementedError"], obj |-> NoModule]
    ELSE [ret |-> [kind |-> "return", exc |-> ""],
          obj |-> [cls |-> "SentenceHistoryAttn", linear |-> lin,
                   recency_bias |-> recency_bias, cuda |-> cuda,
                   use_current_timestep |-> use_current_timestep,
                   recency_weight |-> IF recency_bias THEN weight ELSE 0]]

\* torch.triu(ones, diagonal): TRUE on and above the given diagonal
Triu_off_by_one(n, diagonal) == [i \in 1..n |-> [j \in 1..n |-> j - i >= diagonal + 1]]

Triu(n, diagonal) == [i \in 1..n |-> [j \in 1..n |-> j - i >= diagonal]]

\* scipy.linalg.toeplitz(np.arange(n)): the distance between turns
Toeplitz(n) == [i \in 1..n |-> [j \in 1..n |-> Num(Abs(i - j))]]

\* x: n turns (one feature each); returns the n * n attention matrix
SentenceHistoryAttn_forward(self, x) ==
    LET n == Len(x)
        x_proj == [i \in 1..n |-> Relu(Linear(self.linear, x[i]))]
        scores0 == [i \in 1..n |-> [j \in 1..n |-> Mul(x_proj[i], x_proj[j])]]
        diagonal == IF self.use_current_timestep THEN 1 ELSE 0
        scores_mask == Triu(n, diagonal)
        scores1 == [i \in 1..n |-> MaskedFill(scores0[i], scores_mask[i], NegInf)]
        recency0 == Toeplitz(n)
        recency1 == [i \in 1..n |-> MaskedFill(recency0[i], scores_mask[i], Num(0))]
        recency2 == [i \in 1..n |-> [j \in 1..n |-> Mul(Num(self.recency_weight), recency1[i][j])]]
        scores2 == IF self.recency_bias
                   THEN [i \in 1..n |-> [j \in 1..n |-> Add(scores1[i][j], recency2[i][j])]]
                   ELSE scores1
        scores3 == [i \in 1..n |-> Softmax(scores2[i])]
        scores4 == IF ~self.use_current_timestep
                   THEN [scores3 EXCEPT ![1] = [j \in 1..n |-> Num(0)]]
                   ELSE scores3
    IN  [kind |-> "return", exc |-> "", out |-> scores4, diagonal |-> diagonal]

(***************************************************************************)
(* History attention: state and actions.                                   *)
(***************************************************************************)
InitHist ==
    /\ mod = NoModule
    /\ call = NoCall

\* SentenceHistoryAttn(...): given is the use_current_timestep argument
\* passed, or "default" when the caller leaves it out
ConstructHistory ==
    /\ call = NoCall
    /\ \E recency_bias \in BOOLEAN, cuda \in BOOLEAN, given \in {"default", "True", "False"},
          lin \in Linears, weight \in RecencyWeights :
         LET use_current_timestep == IF given = "default" THEN DefaultUseCurrentTimestep
                                     ELSE given = "True"
             r == SentenceHistoryAttn_init(recency_bias, cuda, use_current_timestep, lin, weight)
         IN  /\ call' = [op |-> "SentenceHistoryAttn.__init__", given |-> given,
                         use_current_timestep |-> use_current_timestep, ret |-> r.ret]
             /\ mod' = IF r.ret.kind = "raise" THEN mod ELSE r.obj

HistoryForward ==
    /\ mod.cls = "SentenceHistoryAttn"
    /\ call = NoCall
    /\ \E n \in 1..MaxTurns : \E x \in [1..n -> Values] :
         call' = [op |-> "SentenceHistoryAttn.forward", x |-> x,
                  ret |-> SentenceHistoryAttn_forward(mod, x)]
    /\ UNCHANGED mod

NextHist == ConstructHistory \/ HistoryForward \/ Return

SpecHist == InitHist /\ [][NextHist]_vars

(***************************************************************************)
(* History attention: what the claims read.                                *)
(***************************************************************************)
\* C2: with the current timestep excluded, for every number of turns and
\* with or without recency bias, row 0 of the matrix returned is all zeros,
\* every later row i sums to 1 over columns 0..i-1, and every entry at a
\* column j >= i is exactly 0.
C2_StrictlyLowerTriangular ==
    (call.op = "SentenceHistoryAttn.forward" /\ ~mod.use_current_timestep)
        => LET out == call.ret.out
               n == Len(call.x)
           IN  /\ Len(out) = n
               /\ \A j \in 1..n : out[1][j] = Num(0)
               /\ \A i \in 2..n :
                    /\ Len(out[i]) = n
                    /\ SumOf([j \in 1..(i - 1) |-> out[i][j]]) = Num(1)
                    /\ \A j \in i..n : out[i][j] = Num(0)

\* a call with recency bias on the longest history, where a row spreads
\* its weight unevenly over the past turns
C2_Witness ==
    /\ call.op = "SentenceHistoryAttn.forward"
    /\ mod.recency_bias /\ mod.recency_weight # 0
    /\ Len(call.x) = MaxTurns
    /\ call.ret.out[MaxTurns][1] # call.ret.out[MaxTurns][2]
    /\ call.ret.out[MaxTurns][1].n > 0 /\ call.ret.out[MaxTurns][2].n > 0

\* C6: constructing with use_current_timestep true (the default included)
\* raises NotImplementedError and builds nothing; every instance has
\* use_current_timestep false; forward masks the diagonal with the upper
\* triangle (diagonal=0), never the strictly upper triangle alone.
C6_ConstructionFailsFast ==
    /\ call.op = "SentenceHistoryAttn.__init__"
         => /\ call.given = "default" => call.use_current_timestep
            /\ call.use_current_timestep
                 => call.ret.kind = "raise" /\ call.ret.exc = "NotImplementedError"
    /\ mod.cls = "SentenceHistoryAttn" => ~mod.use_current_timestep
    /\ call.op = "SentenceHistoryAttn.forward"
         => /\ call.ret.diagonal = 0
            /\ \A i \in DOMAIN call.ret.out : call.ret.out[i][i] = Num(0)

\* the construction with default arguments has failed
C6_Witness ==
    /\ call.op = "SentenceHistoryAttn.__init__"
    /\ call.given = "default"
    /\ call.ret.kind = "raise"

(***************************************************************************)
(* WordHistoryAttn (layers.py 118-151), uniform_weights (342-344) and      *)
(* direct calls of dropout.                                                *)
(***************************************************************************)
\* dropout inputs: tensors of 2 or 3 axes, each of size 1..MaxDim
MaxDim == 2

\* __init__: attrs are the attributes the object has afterwards
WordHistoryAttn(recency_bias, cuda) ==
    [cls |-> "WordHistoryAttn", recency_bias |-> recency_bias, cuda |-> cuda,
     attrs |-> {"linear", "recency_bias", "cuda"}
                  \cup (IF recency_bias THEN {"recency_weight"} ELSE {})]

\* forward reads self.question_hiddens, then falls off its end (pass)
WordHistoryAttn_forward(self, question_hiddens, question_hidden, q_mask) ==
    IF "question_hiddens" \notin self.attrs
    THEN [kind |-> "raise", exc |-> "AttributeError", out |-> None]
    ELSE [kind |-> "return", exc |-> "", out |-> None]

uniform_weights(x, x_mask) ==
    [kind |-> "raise", exc |-> "NotImplementedError", out |-> None]

DropoutShapes == UNION {[1..r -> 1..MaxDim] : r \in {2, 3}}

SymbolicX(shape) == Tensor(shape, [b \in 1..shape[1] |-> [k |-> "x", b |-> b]])

InitFn ==
    /\ mod = NoModule
    /\ call = NoCall

ConstructWordHistory ==
    /\ call = NoCall
    /\ \E recency_bias \in BOOLEAN, cuda \in BOOLEAN :
         /\ mod' = WordHistoryAttn(recency_bias, cuda)
         /\ call' = [op |-> "WordHistoryAttn.__init__", ret |-> [kind |-> "return", exc |-> ""]]

WordHistoryForward ==
    /\ mod.cls = "WordHistoryAttn"
    /\ call = NoCall
    /\ \E s \in AttnShapes : \E q_mask \in Masks(s[1], s[2]) :
         call' = [op |-> "WordHistoryAttn.forward", mask |-> q_mask,
                  ret |-> WordHistoryAttn_forward(mod, SymbolicX(<<s[1], s[2], 1>>),
                                                  SymbolicX(<<s[1], 1>>), q_mask)]
    /\ UNCHANGED mod

UniformWeights ==
    /\ call = NoCall
    /\ \E s \in AttnShapes : \E x_mask \in Masks(s[1], s[2]) :
         call' = [op |-> "uniform_weights", mask |-> x_mask,
                  ret |-> uniform_weights(SymbolicX(<<s[1], s[2], 1>>), x_mask)]
    /\ UNCHANGED mod

DropoutCall ==
    /\ call = NoCall
    /\ \E shape \in DropoutShapes, drop_prob \in DropoutRates, training \in BOOLEAN :
         \E shared_axes \in SUBSET (0..Len(shape)) :
           call' = [op |-> "dropout", x |-> SymbolicX(shape), drop_prob |-> drop_prob,
                    shared_axes |-> shared_axes, training |-> training,
                    ret |-> dropout(SymbolicX(shape), drop_prob, shared_axes, training, 1)]
    /\ UNCHANGED mod

NextFn == ConstructWordHistory \/ WordHistoryForward \/ UniformWeights \/ DropoutCall \/ Return

SpecFn == InitFn /\ [][NextFn]_vars

(***************************************************************************)
(* Stubs and dropout: what the claims read.                                *)
(***************************************************************************)
\* C5: a call of uniform_weights or of WordHistoryAttn.forward ends in a
\* not-implemented failure: it returns nothing and raises nothing else.
C5_StubsRaiseNotImplemented ==
    call.op \in {"uniform_weights", "WordHistoryAttn.forward"}
        => call.ret.kind = "raise" /\ call.ret.exc = "NotImplementedError"

\* C9: dropout returns x itself and draws no mask whenever drop_prob is 0
\* or training is false, whatever x and shared_axes are.
C9_DropoutIdentity ==
    (call.op = "dropout" /\ (call.drop_prob = 0 \/ ~call.training))
        => call.ret.out = call.x /\ call.ret.draws = <<>>

\* dropout called in training mode with probability 0 and a shared axis
C9_Witness ==
    /\ call.op = "dropout"
    /\ call.drop_prob = 0 /\ call.training
    /\ call.shared_axes = {1}
    /\ Len(call.x.shape) = 3

====
